---- MODULE Spec2Model ----
(***************************************************************************)
(* Model of the Jarvis query pipeline: ActionOutputParser and Orchestrator *)
(* (orchestrator.py), MemoryLayer (memory_layer.py) and SystemActions      *)
(* (system_actions.py).                                                    *)
(*                                                                         *)
(* Text.  A Python str is a sequence of tokens.  A token is a punctuation  *)
(* character (kind "p"), a maximal run of word characters \w+ (kind "w"),  *)
(* or a double-quoted literal whose content is one word or empty (kind     *)
(* "s", the text "<word>" with its quotes).  Two "w" tokens are never      *)
(* adjacent in an input (maximal munch), so every token sequence stands    *)
(* for exactly one string.                                                 *)
(*                                                                         *)
(* Python values.  A value is a record [k, v]: k = "str" with v the text,  *)
(* k = "num" with v the digits, k = "none" for None.  A dict is a function *)
(* from its keys (TLA+ strings) to such values.                            *)
(***************************************************************************)
EXTENDS Integers, Sequences, FiniteSets, TLC

VARIABLES
    llm,              \* Orchestrator.llm: TRUE iff a model backend was loaded
    actions,          \* SystemActions.actions: the dispatch table
    store,            \* MemoryLayer.conversation_collection: the stored turns
    clock,            \* datetime.now(): the number of clock readings so far
    pc,               \* the position of the running call
    user_input,       \* process_query: its argument
    store0,           \* the stored turns when the running call started
    context,          \* process_query: context
    response_text,    \* process_query: response_text (the text given to parse)
    parsed,           \* process_query: parsed (the value parse returned)
    action_name,      \* execute_action: action_name
    kwargs,           \* execute_action: **kwargs
    action_result,    \* process_query: action_result (execute_action's value)
    allowed_commands, \* run_command: allowed_commands of the latest call
    spawned,          \* the subprocess calls the latest dispatch made
    final_response,   \* process_query: final_response
    result,           \* the value process_query returned
    raised,           \* the exception that left the running call, or "none"
    limit,            \* get_recent_conversations: limit
    recent,           \* get_recent_conversations: the value returned
    command,          \* handle_wake_word_detected: command
    spoken,           \* the text of the latest VoiceInterface.speak call
    cleaned,          \* TRUE once VoiceInterface.cleanup has run
    exit_code,        \* the process's exit status, NotCalled while it runs
    interrupted       \* TRUE once the interrupt signal has been delivered

(***************************************************************************)
(* Tokens and Python values                                                *)
(***************************************************************************)
W(x) == [k |-> "w", v |-> x]
S(x) == [k |-> "s", v |-> x]
P(x) == [k |-> "p", v |-> x]
Sp == P(" ")
NL == P("\n")
LBrace == P("{")
RBrace == P("}")
Colon == P(":")
Comma == P(",")

IsSpace(t) == t \in {Sp, NL}

PyNone == [k |-> "none", v |-> <<>>]
PyStr(t) == [k |-> "str", v |-> t]
PyNum(d) == [k |-> "num", v |-> <<W(d)>>]
NotCalled == [k |-> "notcalled", v |-> <<>>]

EmptyDict == [x \in {} |-> PyNone]

\* dict.get(key) with the default None
Get(d, key) == IF key \in DOMAIN d THEN d[key] ELSE PyNone

\* bool(value): None, "" and 0 are false
Truthy(val) ==
    CASE val.k = "none" -> FALSE
      [] val.k = "str" -> val.v # <<>>
      [] val.k = "num" -> val.v # <<W("0")>>
      [] OTHER -> TRUE

Min(a, b) == IF a <= b THEN a ELSE b

\* the least element of a non-empty set of numbers
Least(Set) == CHOOSE i \in Set : \A j \in Set : i <= j

(***************************************************************************)
(* ActionOutputParser.parse                                                *)
(***************************************************************************)
\* re.search(r'\{[^}]+\}', text): the start of the leftmost match, 0 if none.
\* A match starts at a "{" followed by at least one character that is not
\* "}" and then a "}".
JsonMatchStart(t) ==
    LET Starts == {i \in 1..Len(t) :
                     /\ t[i] = LBrace
                     /\ i + 1 <= Len(t)
                     /\ t[i + 1] # RBrace
                     /\ \E j \in (i + 2)..Len(t) : t[j] = RBrace}
    IN IF Starts = {} THEN 0 ELSE Least(Starts)

\* json_match.group(): [^}]+ stops at the first "}" after the start.
JsonMatchGroup(t) ==
    LET i == JsonMatchStart(t)
        j == Least({n \in (i + 2)..Len(t) : t[n] = RBrace})
    IN SubSeq(t, i, j)

\* the tokens of a text that are not JSON whitespace
RECURSIVE NoSpace(_)
NoSpace(t) ==
    IF t = <<>> THEN <<>>
    ELSE IF IsSpace(t[1]) THEN NoSpace(Tail(t))
    ELSE <<t[1]>> \o NoSpace(Tail(t))

\* the bare words json.loads reads as a number
NumWords == {"0", "1"}

\* a token json.loads reads as a value: a string literal, a number, null
IsJsonValue(tok) ==
    \/ tok.k = "s"
    \/ tok.k = "w" /\ tok.v \in NumWords \cup {"null"}

JsonValue(tok) ==
    CASE tok.k = "s" -> PyStr(IF tok.v = "" THEN <<>> ELSE <<W(tok.v)>>)
      [] tok.k = "w" /\ tok.v = "null" -> PyNone
      [] OTHER -> PyNum(tok.v)

\* The members of the object between the braces, whitespace removed:
\* empty, or  string : value  ( , string : value )*
JsonMembersOk(c) ==
    \/ c = <<>>
    \/ /\ Len(c) % 4 = 3
       /\ \A n \in 1..Len(c) :
            CASE n % 4 = 1 -> c[n].k = "s"
              [] n % 4 = 2 -> c[n] = Colon
              [] n % 4 = 3 -> IsJsonValue(c[n])
              [] OTHER -> c[n] = Comma

\* json.loads succeeds on the matched fragment  { ... }
JsonDecodes(frag) == JsonMembersOk(NoSpace(SubSeq(frag, 2, Len(frag) - 1)))

\* json.loads(fragment): the dict; a repeated key keeps its last value
JsonLoads(frag) ==
    LET c == NoSpace(SubSeq(frag, 2, Len(frag) - 1))
        KeyAt == {n \in 1..Len(c) : n % 4 = 1}
        Keys == {c[n].v : n \in KeyAt}
        LastAt(key) == CHOOSE n \in KeyAt :
                          /\ c[n].v = key
                          /\ \A m \in KeyAt : c[m].v = key => m <= n
    IN [key \in Keys |-> JsonValue(c[LastAt(key) + 2])]

\* mutant: the pattern is matched without re.IGNORECASE
ActionWordsCaseSensitive == {"action", "reaction"}

\* the words that end in the letters "action" in some letter case
\* (re.IGNORECASE; re.search may start the match inside a word)
ActionWords == {"action", "Action", "ACTION", "reaction"}

\* the first position after i that holds no whitespace (\s*), Len+1 if none
SkipSpace(t, i) ==
    LET Rest == {n \in (i + 1)..Len(t) : ~IsSpace(t[n])}
    IN IF Rest = {} THEN Len(t) + 1 ELSE Least(Rest)

\* re.search(r'action:\s*(\w+)', text, re.IGNORECASE): the positions where
\* a match starts
ActionMatchStarts(t) ==
    {i \in 1..Len(t) :
        /\ t[i].k = "w" /\ t[i].v \in ActionWords
        /\ i + 1 <= Len(t) /\ t[i + 1] = Colon
        /\ SkipSpace(t, i + 1) <= Len(t)
        /\ t[SkipSpace(t, i + 1)].k = "w"}

\* action_match.group(1) of the leftmost match
ActionMatchGroup(t) ==
    LET i == Least(ActionMatchStarts(t))
    IN <<t[SkipSpace(t, i + 1)]>>

parse(t) ==
    IF JsonMatchStart(t) # 0 /\ JsonDecodes(JsonMatchGroup(t))
    THEN JsonLoads(JsonMatchGroup(t))
    ELSE IF ActionMatchStarts(t) # {}
    THEN [key \in {"action", "response"} |->
            IF key = "action" THEN PyStr(ActionMatchGroup(t)) ELSE PyStr(t)]
    ELSE [key \in {"action", "response"} |->
            IF key = "action" THEN PyNone ELSE PyStr(t)]

(***************************************************************************)
(* SystemActions                                                           *)
(***************************************************************************)
\* str.split(): the maximal runs of non-whitespace, in order
RECURSIVE Split(_)
Split(t) ==
    IF t = <<>> THEN <<>>
    ELSE IF IsSpace(t[1]) THEN Split(Tail(t))
    ELSE LET \* the first whitespace position of t, Len(t)+1 if none
             e == IF {i \in 1..Len(t) : IsSpace(t[i])} = {} THEN Len(t) + 1
                  ELSE Least({i \in 1..Len(t) : IsSpace(t[i])})
         IN <<SubSeq(t, 1, e - 1)>> \o Split(SubSeq(t, e + 1, Len(t)))

\* str(value), as an f-string formats it
Str(val) ==
    CASE val.k = "none" -> <<W("None")>>
      [] OTHER -> val.v

\* an ActionResult dict (its optional "data" entry is left out: nothing
\* reads it)
ActionResult(ok, msg) == [k |-> "dict", success |-> ok, message |-> msg]

\* the text of a caught exception, f"{e}"
ErrText == <<W("error")>>

\* one subprocess.Popen / subprocess.run call: the operation and its argv
Launch(op, argv) == [by |-> op, argv |-> argv]

\* what one call of an operation does: the value returned (PyNone if it
\* raised), the exception that left it ("none" if it returned), the
\* subprocess calls it made, and run_command's allow-list
Outcome(res, exc, argvs) ==
    [result |-> res, raised |-> exc, spawn |-> argvs, allowed |-> <<>>]

\* __init__: the dispatch table, action name -> operation
ActionTable ==
    [n \in {"open_cursor", "open_browser", "open_terminal", "get_time",
            "get_date", "list_files", "run_command"} |-> n]

open_cursor(kw) ==
    { Outcome(ActionResult(TRUE, <<W("Cursor"), Sp, W("opened")>>), "none",
              {Launch("open_cursor", <<<<W("cursor")>>>>)}),
      Outcome(ActionResult(FALSE, <<W("Failed"), Sp, W("to"), Sp, W("open"), Sp,
                                    W("Cursor"), Colon, Sp>> \o ErrText),
              "none", {Launch("open_cursor", <<<<W("cursor")>>>>)}) }

Browsers == <<"firefox", "chrome", "chromium", "brave">>
Terminals == <<"gnome-terminal", "konsole", "xterm", "alacritty">>

\* for term in programs: try Popen([term]) ... except FileNotFoundError:
\* continue.  Program n starts after programs 1..n-1 were not found; the
\* loop ends without a start when none is found; any other exception
\* raised by the n-th Popen reaches the outer handler.
TryEach(op, programs, none_msg, fail_msg) ==
    LET Tried(n) == {Launch(op, <<<<W(programs[i])>>>>) : i \in 1..n}
    IN  { Outcome(ActionResult(TRUE, <<W("Opened"), Sp, W(programs[n])>>),
                  "none", Tried(n)) : n \in 1..Len(programs) }
        \cup { Outcome(ActionResult(FALSE, none_msg), "none",
                       Tried(Len(programs))) }
        \cup { Outcome(ActionResult(FALSE, fail_msg \o ErrText), "none",
                       Tried(n)) : n \in 1..Len(programs) }

open_browser(kw) ==
    IF Truthy(Get(kw, "url"))
    THEN { Outcome(ActionResult(TRUE, <<W("Opened"), Sp>> \o Str(kw["url"])),
                   "none", {}),
           Outcome(ActionResult(FALSE, <<W("Failed"), Sp, W("to"), Sp, W("open"),
                                 Sp, W("browser"), Colon, Sp>> \o ErrText),
                   "none", {}) }
    ELSE TryEach("open_browser", Browsers,
                 <<W("No"), Sp, W("browser"), Sp, W("found")>>,
                 <<W("Failed"), Sp, W("to"), Sp, W("open"), Sp, W("browser"),
                   Colon, Sp>>)

open_terminal(kw) ==
    TryEach("open_terminal", Terminals,
            <<W("No"), Sp, W("terminal"), Sp, W("found")>>,
            <<W("Failed"), Sp, W("to"), Sp, W("open"), Sp, W("terminal"),
              Colon, Sp>>)

get_time(kw) ==
    { Outcome(ActionResult(TRUE, <<W("The"), Sp, W("time"), Sp, W("is"), Sp,
                                   W("now")>>), "none", {}) }

get_date(kw) ==
    { Outcome(ActionResult(TRUE, <<W("Today"), Sp, W("is"), Sp, W("today")>>),
              "none", {}) }

list_files(kw) ==
    { Outcome(ActionResult(TRUE, <<W("Found"), Sp, W("n"), Sp, W("items"), Sp,
                                   W("in"), Sp>> \o
                                 (IF Truthy(Get(kw, "directory"))
                                  THEN Str(kw["directory"]) ELSE <<W("cwd")>>)),
              "none", {}),
      Outcome(ActionResult(FALSE, <<W("Failed"), Sp, W("to"), Sp, W("list"), Sp,
                                    W("files"), Colon, Sp>> \o ErrText),
              "none", {}) }

\* run_command: allowed_commands
AllowList == <<<<W("ls")>>, <<W("pwd")>>, <<W("date")>>, <<W("whoami")>>>>

Range(f) == {f[i] : i \in DOMAIN f}

\* mutant: only the leading word of the command name is compared
NotAllowedLeadingWord(name, allowed) ==
    <<name[1]>> \notin Range(allowed)

\* cmd_parts[0] not in allowed_commands
NotAllowed(name, allowed) == name \notin Range(allowed)

run_command(kw) ==
    IF "command" \notin DOMAIN kw
    THEN \* missing required argument: raised by the call itself
         { Outcome(PyNone, "TypeError", {}) }
    ELSE LET Allow(o) == [o EXCEPT !.allowed = AllowList] IN
         IF kw["command"].k # "str"
         THEN { Allow(Outcome(PyNone, "AttributeError", {})) }
         ELSE LET cmd_parts == Split(kw["command"].v) IN
              IF cmd_parts = <<>>
              THEN { Allow(Outcome(PyNone, "IndexError", {})) }
              ELSE IF NotAllowed(cmd_parts[1], AllowList)
              THEN { Allow(Outcome(ActionResult(FALSE,
                        <<W("Command"), Sp, P("'")>> \o cmd_parts[1] \o
                        <<P("'"), Sp, W("is"), Sp, W("not"), Sp, W("allowed"),
                          Sp, W("for"), Sp, W("security"), Sp, W("reasons")>>),
                        "none", {})) }
              ELSE { Allow(Outcome(ActionResult(TRUE, <<W("stdout")>>),
                                   "none", {Launch("run_command", cmd_parts)})),
                     Allow(Outcome(ActionResult(TRUE,
                                     <<W("Command"), Sp, W("executed")>>),
                                   "none", {Launch("run_command", cmd_parts)})),
                     Allow(Outcome(ActionResult(FALSE,
                                     <<W("Command"), Sp, W("failed"), Colon, Sp>>
                                     \o ErrText),
                                   "none", {Launch("run_command", cmd_parts)})) }

\* self.actions[action_name](**kwargs)
Operation(op, kw) ==
    CASE op = "open_cursor" -> open_cursor(kw)
      [] op = "open_browser" -> open_browser(kw)
      [] op = "open_terminal" -> open_terminal(kw)
      [] op = "get_time" -> get_time(kw)
      [] op = "get_date" -> get_date(kw)
      [] op = "list_files" -> list_files(kw)
      [] op = "run_command" -> run_command(kw)

\* action_name in self.actions
InTable(tbl, name) ==
    /\ name.k = "str"
    /\ Len(name.v) = 1
    /\ name.v[1].k = "w"
    /\ name.v[1].v \in DOMAIN tbl

UnknownAction(name) ==
    ActionResult(FALSE, <<W("Unknown"), Sp, W("action"), Colon, Sp>> \o Str(name))

\* mutant: the table is indexed without the membership test
execute_action_unchecked(tbl, name, kw) ==
    IF InTable(tbl, name)
    THEN Operation(tbl[name.v[1].v], kw)
    ELSE { Outcome(PyNone, "KeyError", {}) }

\* execute_action(action_name, **kwargs): the outcomes the environment
\* allows
execute_action(tbl, name, kw) ==
    IF InTable(tbl, name)
    THEN Operation(tbl[name.v[1].v], kw)
    ELSE { Outcome(UnknownAction(name), "none", {}) }

(***************************************************************************)
(* MemoryLayer                                                             *)
(***************************************************************************)
\* the record conversation_collection.add stores; the timestamp and the id
\* come from two successive clock readings
Turn(u, a, now) ==
    [id |-> now + 2, timestamp |-> now + 1, user_input |-> u,
     assistant_response |-> a]

\* mutant: the id is derived from the user input, so a repeated input
\* replaces its earlier turn
add_conversation_by_input(s, u, a, now) ==
    IF \E i \in 1..Len(s) : s[i].user_input = u
    THEN [i \in 1..Len(s) |->
            IF s[i].user_input = u THEN Turn(u, a, now) ELSE s[i]]
    ELSE Append(s, Turn(u, a, now))

\* add_conversation: the collection after the add
add_conversation(s, u, a, now) == Append(s, Turn(u, a, now))

\* conversation_collection.get(limit=limit): the collection's first `limit`
\* records in insertion order
CollectionGet(s, n) == SubSeq(s, 1, Min(n, Len(s)))

\* get_recent_conversations(limit)
get_recent_conversations(s, n) ==
    LET results == CollectionGet(s, n)
    IN [i \in 1..Len(results) |->
          [user_input |-> results[i].user_input,
           assistant_response |-> results[i].assistant_response,
           timestamp |-> results[i].timestamp]]

\* conversation_collection.query(n_results=limit): the nearest stored turns
\* by embedding distance, which the model leaves open: any Min(limit, size)
\* distinct turns in any order
CollectionQuery(s, n) ==
    {q \in [1..Min(n, Len(s)) -> 1..Len(s)] :
        \A i, j \in DOMAIN q : i # j => q[i] # q[j]}

\* search_similar_conversations(query, limit), one outcome per query result
search_similar_conversations(s, n) ==
    {[i \in DOMAIN q |->
        [user_input |-> s[q[i]].user_input,
         assistant_response |-> s[q[i]].assistant_response]] :
     q \in CollectionQuery(s, n)}

\* f"User: {conv['user_input']}\nAssistant: {conv['assistant_response']}\n\n"
RECURSIVE FormatTurns(_)
FormatTurns(convs) ==
    IF convs = <<>> THEN <<>>
    ELSE <<W("User"), Colon, Sp>> \o Str(convs[1].user_input)
         \o <<NL, W("Assistant"), Colon, Sp>>
         \o Str(convs[1].assistant_response) \o <<NL, NL>>
         \o FormatTurns(Tail(convs))

\* get_context_for_llm's text for given recent and similar conversations
FormatContext(rec, similar) ==
    <<W("Previous"), Sp, W("conversation"), Sp, W("context"), Colon, NL>>
    \o FormatTurns(rec)
    \o (IF similar # <<>>
        THEN <<W("Similar"), Sp, W("past"), Sp, W("conversations"), Colon, NL>>
             \o FormatTurns(similar)
        ELSE <<>>)

\* get_context_for_llm: max_conversations
MaxConversations == 3
\* get_context_for_llm: the limit it gives search_similar_conversations
SimilarLimit == 2

(***************************************************************************)
(* Bounds and inputs                                                       *)
(***************************************************************************)
\* the stored turns at which no further query is started
MaxTurns == 2
\* the longest text of the exhaustive parser inputs
MaxLen == 4
\* the largest limit given to get_recent_conversations
MaxLimit == 3
\* the stored turns at which no further turn is added (memory layer alone)
MaxStored == 4

Json2(k1, v1, k2, v2) ==
    <<LBrace, S(k1), Colon, v1, Comma, S(k2), Colon, v2, RBrace>>
Json1(k1, v1) == <<LBrace, S(k1), Colon, v1, RBrace>>

\* {"action":"get_time","parameters":{},"response":"ok"}
NestedEmptyParams ==
    <<LBrace, S("action"), Colon, S("get_time"), Comma, S("parameters"), Colon,
      LBrace, RBrace, Comma, S("response"), Colon, S("ok"), RBrace>>
\* {"action":"run_command","parameters":{"command":"ls"}}
NestedParams ==
    <<LBrace, S("action"), Colon, S("run_command"), Comma, S("parameters"),
      Colon, LBrace, S("command"), Colon, S("ls"), RBrace, RBrace>>

\* texts the model backend may generate (before .strip())
ModelOutputs ==
    { NestedEmptyParams,
      NestedParams,
      Json2("action", S("get_time"), "response", S("ok")),
      <<Sp>> \o Json1("action", S("get_time")) \o <<NL>>,
      Json2("action", S("bogus"), "response", S("")),
      Json2("action", S("open_cursor"), "response", S("ok")),
      Json2("action", S("get_time"), "parameters", S("x")),
      Json1("response", S("ok")),
      <<W("action"), Colon, Sp, W("get_date")>>,
      <<W("Action"), Colon, Sp, W("run_command")>>,
      <<Sp, W("hello"), Sp>>,
      <<>> }

\* the tokens of the exhaustive parser inputs
Alphabet ==
    {LBrace, RBrace, Colon, Comma, Sp, W("action"), W("get_date"), S("action"),
     S("get_time")}

\* a text in which no two word tokens are adjacent
Munched(t) == \A i \in 1..(Len(t) - 1) : ~(t[i].k = "w" /\ t[i + 1].k = "w")

ShortTexts ==
    {t \in UNION {[1..n -> Alphabet] : n \in 0..MaxLen} : Munched(t)}

UserInputs == {<<>>, <<W("hi")>>, <<W("what"), Sp, W("time")>>}

\* the turns a persisted collection may hold when the program starts
InitialStores ==
    {<<>>, <<Turn(PyStr(<<W("old")>>), PyStr(<<W("reply")>>), 0)>>}

(***************************************************************************)
(* Orchestrator.process_query                                              *)
(***************************************************************************)
RECURSIVE lstrip(_)
lstrip(t) == IF t # <<>> /\ IsSpace(t[1]) THEN lstrip(Tail(t)) ELSE t

RECURSIVE rstrip(_)
rstrip(t) ==
    IF t # <<>> /\ IsSpace(t[Len(t)]) THEN rstrip(SubSeq(t, 1, Len(t) - 1))
    ELSE t

\* str.strip()
strip(t) == rstrip(lstrip(t))

Unavailable == <<W("LLM"), Sp, W("is"), Sp, W("not"), Sp, W("available")>>

QueryResult(resp, act, ares) ==
    [k |-> "dict", response |-> resp, action |-> act, action_result |-> ares]

\* mutant: a failed action's message takes precedence
FinalResponseFailureFirst(p, ares, raw) ==
    IF ares # PyNone /\ ~ares.success THEN PyStr(ares.message)
    ELSE IF Truthy(Get(p, "response")) THEN p["response"]
    ELSE IF ares # PyNone /\ Truthy(PyStr(ares.message)) THEN PyStr(ares.message)
    ELSE PyStr(raw)

\* lines 106-112: the final response
FinalResponse(p, ares, raw) ==
    IF Truthy(Get(p, "response")) THEN p["response"]
    ELSE IF ares # PyNone /\ Truthy(PyStr(ares.message)) THEN PyStr(ares.message)
    ELSE PyStr(raw)

\* the variables of the voice front-end
voice_vars == <<command, spoken, cleaned, exit_code, interrupted>>

vars ==
    <<llm, actions, store, clock, pc, user_input, store0, context,
      response_text, parsed, action_name, kwargs, action_result,
      allowed_commands, spawned, final_response, result, raised, limit, recent,
      voice_vars>>

\* the voice front-end before run() is called
VoiceIdle ==
    /\ command = PyNone
    /\ spoken = PyNone
    /\ cleaned = FALSE
    /\ exit_code = NotCalled
    /\ interrupted = FALSE

\* the locals of a call before it assigns them
FreshLocals ==
    /\ context = <<>>
    /\ response_text = <<>>
    /\ parsed = EmptyDict
    /\ action_name = PyNone
    /\ kwargs = EmptyDict
    /\ action_result = PyNone
    /\ final_response = PyNone
    /\ result = NotCalled
    /\ raised = "none"

\* line 60: a call of process_query(u) starts, its locals unassigned
Enter(u) ==
    /\ pc' = "entered"
    /\ user_input' = PyStr(u)
    /\ store0' = store
    /\ context' = <<>>
    /\ response_text' = <<>>
    /\ parsed' = EmptyDict
    /\ action_name' = PyNone
    /\ kwargs' = EmptyDict
    /\ action_result' = PyNone
    /\ final_response' = PyNone
    /\ result' = NotCalled
    /\ raised' = "none"
    /\ spawned' = {}
    /\ UNCHANGED voice_vars
    /\ UNCHANGED <<llm, actions, store, clock, allowed_commands, limit,
                   recent>>

\* the caller invokes process_query(u) once the previous call has ended
ProcessQuery(u) ==
    /\ pc \in {"idle", "returned", "raised"}
    /\ Len(store) < MaxTurns
    /\ Enter(u)

\* mutant: the degraded branch also logs the turn
ReturnUnavailableLogged ==
    /\ pc = "entered" /\ ~llm
    /\ result' = QueryResult(PyStr(Unavailable), PyNone, PyNone)
    /\ store' = add_conversation(store, user_input, PyStr(Unavailable), clock)
    /\ clock' = clock + 2
    /\ pc' = "returned"
    /\ UNCHANGED voice_vars
    /\ UNCHANGED <<llm, actions, user_input, store0, context,
                   response_text, parsed, action_name, kwargs, action_result,
                   allowed_commands, spawned, final_response, raised, limit,
                   recent>>

\* lines 62-67: no model backend
ReturnUnavailable ==
    /\ pc = "entered" /\ ~llm
    /\ result' = QueryResult(PyStr(Unavailable), PyNone, PyNone)
    /\ pc' = "returned"
    /\ UNCHANGED voice_vars
    /\ UNCHANGED <<llm, actions, store, clock, user_input, store0, context,
                   response_text, parsed, action_name, kwargs, action_result,
                   allowed_commands, spawned, final_response, raised, limit,
                   recent>>

\* line 70: context = self.memory.get_context_for_llm(user_input)
GetContext ==
    /\ pc = "entered" /\ llm
    /\ limit' = MaxConversations
    /\ recent' = get_recent_conversations(store, MaxConversations)
    /\ \E similar \in search_similar_conversations(store, SimilarLimit) :
         context' = FormatContext(recent', similar)
    /\ pc' = "generate"
    /\ UNCHANGED voice_vars
    /\ UNCHANGED <<llm, actions, store, clock, user_input, store0,
                   response_text, parsed, action_name, kwargs, action_result,
                   allowed_commands, spawned, final_response, result, raised>>

\* lines 73-93: the prompt is built and the model generates a text
Generate ==
    /\ pc = "generate"
    /\ \E out \in ModelOutputs : response_text' = strip(out)
    /\ pc' = "parse"
    /\ UNCHANGED voice_vars
    /\ UNCHANGED <<llm, actions, store, clock, user_input, store0, context,
                   parsed, action_name, kwargs, action_result, allowed_commands,
                   spawned, final_response, result, raised, limit, recent>>

\* mutant: a failed generation is tried again
GenerateFaultRetry ==
    /\ pc = "generate"
    /\ raised' = "Exception"
    /\ pc' = "generate"
    /\ UNCHANGED voice_vars
    /\ UNCHANGED <<llm, actions, store, clock, user_input, store0, context,
                   response_text, parsed, action_name, kwargs, action_result,
                   allowed_commands, spawned, final_response, result, limit,
                   recent>>

\* line 92: self.llm.generate raises
GenerateFault ==
    /\ pc = "generate"
    /\ raised' = "Exception"
    /\ pc' = "raised"
    /\ UNCHANGED voice_vars
    /\ UNCHANGED <<llm, actions, store, clock, user_input, store0, context,
                   response_text, parsed, action_name, kwargs, action_result,
                   allowed_commands, spawned, final_response, result, limit,
                   recent>>

\* line 96: parsed = self.output_parser.parse(response_text)
Parse ==
    /\ pc = "parse"
    /\ parsed' = parse(response_text)
    /\ pc' = "dispatch"
    /\ UNCHANGED voice_vars
    /\ UNCHANGED <<llm, actions, store, clock, user_input, store0, context,
                   response_text, action_name, kwargs, action_result,
                   allowed_commands, spawned, final_response, result, raised,
                   limit, recent>>

\* lines 99-100: no action named
NoDispatch ==
    /\ pc = "dispatch"
    /\ ~Truthy(Get(parsed, "action"))
    /\ action_result' = PyNone
    /\ pc' = "resolve"
    /\ UNCHANGED voice_vars
    /\ UNCHANGED <<llm, actions, store, clock, user_input, store0, context,
                   response_text, parsed, action_name, kwargs,
                   allowed_commands, spawned, final_response, result, raised,
                   limit, recent>>

\* the effect of one outcome of an operation on the registry's variables
Apply(o) ==
    /\ allowed_commands' = IF o.allowed # <<>> THEN o.allowed
                           ELSE allowed_commands
    /\ spawned' = o.spawn

\* lines 100-104: execute_action(parsed["action"], **parsed.get("parameters", {}))
Dispatch ==
    /\ pc = "dispatch"
    /\ Truthy(Get(parsed, "action"))
    /\ IF "parameters" \in DOMAIN parsed
       THEN \* a decoded "parameters" is never a mapping: ** raises
            /\ raised' = "TypeError"
            /\ pc' = "raised"
            /\ UNCHANGED <<action_name, kwargs, action_result,
                           allowed_commands, spawned>>
       ELSE /\ action_name' = parsed["action"]
            /\ kwargs' = EmptyDict
            /\ \E o \in execute_action(actions, action_name', kwargs') :
                 /\ Apply(o)
                 /\ action_result' = o.result
                 /\ raised' = o.raised
                 /\ pc' = IF o.raised = "none" THEN "resolve" ELSE "raised"
    /\ UNCHANGED voice_vars
    /\ UNCHANGED <<llm, actions, store, clock, user_input, store0, context,
                   response_text, parsed, final_response, result, limit,
                   recent>>

\* lines 106-112
Resolve ==
    /\ pc = "resolve"
    /\ final_response' = FinalResponse(parsed, action_result, response_text)
    /\ pc' = "store"
    /\ UNCHANGED voice_vars
    /\ UNCHANGED <<llm, actions, store, clock, user_input, store0, context,
                   response_text, parsed, action_name, kwargs, action_result,
                   allowed_commands, spawned, result, raised, limit, recent>>

\* line 115: self.memory.add_conversation(user_input, final_response)
AddConversation ==
    /\ pc = "store"
    /\ store' = add_conversation(store, user_input, final_response, clock)
    /\ clock' = clock + 2
    /\ pc' = "return"
    /\ UNCHANGED voice_vars
    /\ UNCHANGED <<llm, actions, user_input, store0, context, response_text,
                   parsed, action_name, kwargs, action_result,
                   allowed_commands, spawned, final_response, result, raised,
                   limit, recent>>

\* lines 117-121
Return ==
    /\ pc = "return"
    /\ result' = QueryResult(final_response, Get(parsed, "action"),
                             action_result)
    /\ pc' = "returned"
    /\ UNCHANGED voice_vars
    /\ UNCHANGED <<llm, actions, store, clock, user_input, store0, context,
                   response_text, parsed, action_name, kwargs, action_result,
                   allowed_commands, spawned, final_response, raised, limit,
                   recent>>

Init ==
    /\ llm \in BOOLEAN
    /\ actions = ActionTable
    /\ store \in InitialStores
    /\ clock = 2 * Len(store)
    /\ pc = "idle"
    /\ user_input = PyNone
    /\ store0 = store
    /\ FreshLocals
    /\ allowed_commands = <<>>
    /\ spawned = {}
    /\ limit = 0
    /\ recent = <<>>
    /\ VoiceIdle

Next ==
    \/ \E u \in UserInputs : ProcessQuery(u)
    \/ ReturnUnavailable
    \/ GetContext
    \/ Generate
    \/ GenerateFault
    \/ Parse
    \/ NoDispatch
    \/ Dispatch
    \/ Resolve
    \/ AddConversation
    \/ Return

Spec == Init /\ [][Next]_vars

(***************************************************************************)
(* ActionOutputParser.parse alone: one call on each input text             *)
(***************************************************************************)
\* texts that hold a brace fragment and the keyword pattern together
KeywordAfter(t, word, name) == t \o <<Sp, W(word), Colon, Sp, W(name)>>

PrecedenceTexts ==
    { KeywordAfter(Json2("action", S("get_time"), "response", S("ok")),
                   "action", "get_date"),
      KeywordAfter(Json1("action", S("get_time")), "ACTION", "get_date"),
      <<W("action"), Colon, W("get_date"), Sp>>
        \o Json2("response", S("ok"), "action", S("get_time")),
      KeywordAfter(<<LBrace, W("x"), RBrace, Sp>>
                     \o Json1("action", S("get_time")), "action", "get_date"),
      KeywordAfter(<<LBrace, W("x"), RBrace>>, "ACTION", "get_date"),
      KeywordAfter(<<LBrace, S("action"), RBrace>>, "reaction", "get_date"),
      KeywordAfter(Json1("response", S("ok")), "action", "get_date"),
      <<W("Action"), Colon, NL, NL, W("get_date"), Sp, W("action"), Colon,
        W("get_time")>> }

ParseInputs ==
    ShortTexts \cup {strip(t) : t \in ModelOutputs} \cup PrecedenceTexts

InitParse ==
    /\ llm = TRUE
    /\ actions = ActionTable
    /\ store = <<>>
    /\ clock = 0
    /\ pc = "idle"
    /\ user_input = PyNone
    /\ store0 = <<>>
    /\ context = <<>>
    /\ response_text \in ParseInputs
    /\ parsed = EmptyDict
    /\ action_name = PyNone
    /\ kwargs = EmptyDict
    /\ action_result = PyNone
    /\ final_response = PyNone
    /\ result = NotCalled
    /\ raised = "none"
    /\ allowed_commands = <<>>
    /\ spawned = {}
    /\ limit = 0
    /\ recent = <<>>
    /\ VoiceIdle

\* output_parser.parse(response_text)
ParseCall ==
    /\ pc = "idle"
    /\ parsed' = parse(response_text)
    /\ pc' = "parsed"
    /\ UNCHANGED voice_vars
    /\ UNCHANGED <<llm, actions, store, clock, user_input, store0, context,
                   response_text, action_name, kwargs, action_result,
                   allowed_commands, spawned, final_response, result, raised,
                   limit, recent>>

NextParse == ParseCall

SpecParse == InitParse /\ [][NextParse]_vars

(***************************************************************************)
(* SystemActions alone: a sequence of execute_action calls                 *)
(***************************************************************************)
Text1(w) == PyStr(<<W(w)>>)

ExecNames ==
    {Text1(n) : n \in DOMAIN ActionTable}
    \cup {Text1("bogus"), PyStr(<<>>), PyStr(<<W("get"), Sp, W("time")>>)}

Kw1(key, val) == [x \in {key} |-> val]

ExecKwargs ==
    { EmptyDict,
      Kw1("command", PyStr(<<W("rm"), Sp, P("-"), W("rf"), Sp, P("/")>>)),
      Kw1("command", PyStr(<<W("ls")>>)),
      Kw1("command", PyStr(<<Sp, W("pwd"), Sp, P("-"), W("L")>>)),
      Kw1("command", PyStr(<<W("ls"), P("|"), W("sh")>>)),
      Kw1("command", PyStr(<<P("/"), W("bin"), P("/"), W("ls")>>)),
      Kw1("command", PyStr(<<>>)),
      Kw1("command", PyStr(<<Sp, Sp>>)),
      Kw1("command", PyNone),
      Kw1("url", Text1("site")),
      Kw1("directory", Text1("tmp")),
      Kw1("foo", PyNum("1")),
      [x \in {"command", "foo"} |->
         IF x = "command" THEN Text1("date") ELSE PyNum("1")] }

InitActions ==
    /\ llm = TRUE
    /\ actions = ActionTable
    /\ store = <<>>
    /\ clock = 0
    /\ pc = "idle"
    /\ user_input = PyNone
    /\ store0 = <<>>
    /\ context = <<>>
    /\ response_text = <<>>
    /\ parsed = EmptyDict
    /\ action_name = PyNone
    /\ kwargs = EmptyDict
    /\ action_result = PyNone
    /\ final_response = PyNone
    /\ result = NotCalled
    /\ raised = "none"
    /\ allowed_commands = <<>>
    /\ spawned = {}
    /\ limit = 0
    /\ recent = <<>>
    /\ VoiceIdle

\* execute_action(name, **kw), from its call to its return or raise
ExecuteCall(name, kw) ==
    /\ action_name' = name
    /\ kwargs' = kw
    /\ \E o \in execute_action(actions, name, kw) :
         /\ Apply(o)
         /\ action_result' = o.result
         /\ raised' = o.raised
         /\ pc' = IF o.raised = "none" THEN "returned" ELSE "raised"
    /\ UNCHANGED voice_vars
    /\ UNCHANGED <<llm, actions, store, clock, user_input, store0, context,
                   response_text, parsed, final_response, result, limit,
                   recent>>

NextActions == \E name \in ExecNames, kw \in ExecKwargs : ExecuteCall(name, kw)

SpecActions == InitActions /\ [][NextActions]_vars

(***************************************************************************)
(* MemoryLayer alone: turns are added and the recent ones are read         *)
(***************************************************************************)
Replies == {Text1("ok"), PyStr(<<>>)}

InitMemory ==
    /\ llm = TRUE
    /\ actions = ActionTable
    /\ store \in InitialStores
    /\ clock = 2 * Len(store)
    /\ pc = "idle"
    /\ user_input = PyNone
    /\ store0 = store
    /\ context = <<>>
    /\ response_text = <<>>
    /\ parsed = EmptyDict
    /\ action_name = PyNone
    /\ kwargs = EmptyDict
    /\ action_result = PyNone
    /\ final_response = PyNone
    /\ result = NotCalled
    /\ raised = "none"
    /\ allowed_commands = <<>>
    /\ spawned = {}
    /\ limit = 0
    /\ recent = <<>>
    /\ VoiceIdle

\* memory.add_conversation(u, a)
AddCall(u, a) ==
    /\ Len(store) < MaxStored
    /\ store' = add_conversation(store, PyStr(u), a, clock)
    /\ clock' = clock + 2
    /\ pc' = "added"
    /\ UNCHANGED voice_vars
    /\ UNCHANGED <<llm, actions, user_input, store0, context, response_text,
                   parsed, action_name, kwargs, action_result,
                   allowed_commands, spawned, final_response, result, raised,
                   limit, recent>>

\* memory.get_recent_conversations(limit=n)
RecentCall(n) ==
    /\ limit' = n
    /\ recent' = get_recent_conversations(store, n)
    /\ pc' = "read"
    /\ UNCHANGED voice_vars
    /\ UNCHANGED <<llm, actions, store, clock, user_input, store0, context,
                   response_text, parsed, action_name, kwargs, action_result,
                   allowed_commands, spawned, final_response, result, raised>>

NextMemory ==
    \/ \E u \in UserInputs, a \in Replies : AddCall(u, a)
    \/ \E n \in 1..MaxLimit : RecentCall(n)

SpecMemory == InitMemory /\ [][NextMemory]_vars

(***************************************************************************)
(* The voice front-end: JarvisAssistant.run, the wake-word loop of         *)
(* VoiceInterface.listen_for_wake_word and handle_wake_word_detected.  pc  *)
(* is the position of the one thread: "greet" (run, before the loop),      *)
(* "listen", "transcribe" (the loop's try block), "wake", "capture",       *)
(* "heard" (the handler), the positions of process_query, "caught" (the    *)
(* loop's except block), "goodbye", "cleanup", "fatal" (run's except       *)
(* blocks) and "exited".                                                   *)
(***************************************************************************)
Greeting ==
    <<W("Jarvis"), Sp, W("is"), Sp, W("online"), Sp, W("and"), Sp, W("ready")>>
Listening == <<W("Yes"), Comma, Sp, W("I"), P("'"), W("m"), Sp, W("listening")>>
HeardNothing ==
    <<W("I"), Sp, W("didn"), P("'"), W("t"), Sp, W("hear"), Sp, W("anything")>>
Sorry ==
    <<W("Sorry"), Comma, Sp, W("I"), Sp, W("encountered"), Sp, W("an"), Sp,
      W("error")>>
NotSure ==
    <<W("I"), P("'"), W("m"), Sp, W("not"), Sp, W("sure"), Sp, W("how"), Sp,
      W("to"), Sp, W("help"), Sp, W("with"), Sp, W("that")>>
Goodbye == <<W("Goodbye")>>

\* VoiceInterface(wake_word="hey jarvis")
wake_word == <<W("hey"), Sp, W("jarvis")>>

\* str.lower() of one word, for the words the microphone texts hold
LowerWord(x) ==
    CASE x = "Hey" -> "hey"
      [] x = "Jarvis" -> "jarvis"
      [] x = "What" -> "what"
      [] x = "Time" -> "time"
      [] OTHER -> x

\* str.lower()
lower(t) == [i \in 1..Len(t) |-> [k |-> t[i].k, v |-> LowerWord(t[i].v)]]

\* the words of the microphone texts that end, or start, with another word
WordEnds == { <<"they", "hey">>, <<"somewhat", "what">> }
WordStarts == { <<"timely", "time">> }
EndsWith(x, w) == x = w \/ <<x, w>> \in WordEnds
StartsWith(x, w) == x = w \/ <<x, w>> \in WordStarts

\* phrase in t, for a phrase of two words with one blank between them
Contains(t, phrase) ==
    \E i \in 1..(Len(t) - 2) :
        /\ t[i].k = "w" /\ EndsWith(t[i].v, phrase[1].v)
        /\ t[i + 1] = Sp
        /\ t[i + 2].k = "w" /\ StartsWith(t[i + 2].v, phrase[3].v)

\* voice_interface.py lines 91-107: Whisper's text, stripped and lowered
transcribe_audio(raw) == lower(strip(raw))

\* what Whisper makes of a three-second chunk
WakeChunks ==
    { <<>>, <<Sp, W("Hey"), Sp, W("Jarvis")>>, <<W("they"), Sp, W("jarvis")>>,
      <<W("hey")>>, <<W("hey"), NL, W("jarvis")>> }

\* what Whisper makes of a five-second command
RawCommands ==
    { <<>>, <<Sp>>, <<W("hi")>>, <<Sp, W("What"), Sp, W("Time"), Sp>> }

\* bool(self.orchestrator): an Orchestrator instance, whatever llm is; the
\* class defines neither __bool__ nor __len__
orchestrator == TRUE

\* jarvis.py lines 114-128: the texts _handle_simple_command may speak
handle_simple_command(c) ==
    LET command_lower == lower(c.v)
        Messages(outcomes) ==
            { PyStr(o.result.message) : o \in {x \in outcomes : x.raised = "none"} }
    IN IF Contains(command_lower, <<W("open"), Sp, W("cursor")>>)
       THEN Messages(open_cursor(EmptyDict))
       ELSE IF Contains(command_lower, <<W("open"), Sp, W("browser")>>)
       THEN Messages(open_browser(EmptyDict))
       ELSE IF Contains(command_lower, <<W("what"), Sp, W("time")>>)
       THEN Messages(get_time(EmptyDict))
       ELSE { PyStr(NotSure) }

\* the variables of process_query and of the registry
query_vars ==
    <<user_input, store0, context, response_text, parsed, action_name, kwargs,
      action_result, allowed_commands, spawned, final_response, result, limit,
      recent>>

\* jarvis.py line 134: run greets
Greet ==
    /\ pc = "greet"
    /\ spoken' = PyStr(Greeting)
    /\ pc' = "listen"
    /\ UNCHANGED <<llm, actions, store, clock, raised, query_vars, command,
                   cleaned, exit_code, interrupted>>

\* jarvis.py lines 134, 144: the greeting's speak raises
GreetFault ==
    /\ pc = "greet"
    /\ raised' = "Exception"
    /\ pc' = "fatal"
    /\ UNCHANGED <<llm, actions, store, clock, query_vars, voice_vars>>

\* jarvis.py lines 144-147: except Exception: cleanup(); sys.exit(1)
FatalExit ==
    /\ pc = "fatal"
    /\ cleaned' = TRUE
    /\ exit_code' = PyNum("1")
    /\ pc' = "exited"
    /\ UNCHANGED <<llm, actions, store, clock, raised, query_vars, command,
                   spoken, interrupted>>

\* voice_interface.py line 116: a chunk is recorded (the model follows the
\* loop while the store has room for the command's turn)
RecordAudio ==
    /\ pc = "listen"
    /\ Len(store) < MaxTurns
    /\ pc' = "transcribe"
    /\ UNCHANGED <<llm, actions, store, clock, raised, query_vars, voice_vars>>

\* voice_interface.py lines 117-123: the chunk is transcribed; with the wake
\* word in it the callback starts, its command not yet assigned
Transcribe ==
    /\ pc = "transcribe"
    /\ \E raw \in WakeChunks :
         LET text == transcribe_audio(raw)
         IN IF text # <<>> /\ Contains(text, wake_word)
            THEN /\ pc' = "wake"
                 /\ command' = PyNone
                 /\ raised' = "none"
            ELSE /\ pc' = "listen"
                 /\ UNCHANGED <<command, raised>>
    /\ UNCHANGED <<llm, actions, store, clock, query_vars, spoken, cleaned,
                   exit_code, interrupted>>

\* jarvis.py line 81
SpeakListening ==
    /\ pc = "wake"
    /\ spoken' = PyStr(Listening)
    /\ pc' = "capture"
    /\ UNCHANGED <<llm, actions, store, clock, raised, query_vars, command,
                   cleaned, exit_code, interrupted>>

\* jarvis.py line 84, voice_interface.py lines 130-135
ListenForCommand ==
    /\ pc = "capture"
    /\ \E raw \in RawCommands : command' = PyStr(transcribe_audio(raw))
    /\ pc' = "heard"
    /\ UNCHANGED <<llm, actions, store, clock, raised, query_vars, spoken,
                   cleaned, exit_code, interrupted>>

\* jarvis.py lines 86-88
SpeakNothing ==
    /\ pc = "heard"
    /\ ~Truthy(command)
    /\ spoken' = PyStr(HeardNothing)
    /\ pc' = "listen"
    /\ UNCHANGED <<llm, actions, store, clock, raised, query_vars, command,
                   cleaned, exit_code, interrupted>>

\* jarvis.py lines 93-95: result = self.orchestrator.process_query(command)
ProcessCommand ==
    /\ pc = "heard"
    /\ Truthy(command)
    /\ orchestrator
    /\ Enter(command.v)

\* jarvis.py lines 96-105: the response is spoken
SpeakResponse ==
    /\ pc = "returned"
    /\ spoken' = result.response
    /\ pc' = "listen"
    /\ UNCHANGED <<llm, actions, store, clock, raised, query_vars, command,
                   cleaned, exit_code, interrupted>>

\* jarvis.py lines 99, 107: speak(response) raises inside the try block
SpeakResponseFault ==
    /\ pc = "returned"
    /\ raised' = "Exception"
    /\ pc' = "raised"
    /\ UNCHANGED <<llm, actions, store, clock, query_vars, voice_vars>>

\* jarvis.py lines 107-109: except Exception: speak("Sorry, ...")
HandleError ==
    /\ pc = "raised"
    /\ spoken' = PyStr(Sorry)
    /\ pc' = "listen"
    /\ UNCHANGED <<llm, actions, store, clock, raised, query_vars, command,
                   cleaned, exit_code, interrupted>>

\* the positions of the loop's try block where a call may raise to the loop:
\* record_audio (116), transcribe_audio (117) and, in the callback, the
\* speak calls of lines 81, 87, 109 and listen_for_command (84)
RaisesToLoop(at) ==
    \/ at \in {"listen", "transcribe", "wake", "capture", "raised"}
    \/ at = "heard" /\ ~Truthy(command)

\* mutant: a fault in the loop leaves listen_for_wake_word
LoopFaultLeaves(at) ==
    /\ pc = at
    /\ RaisesToLoop(at)
    /\ raised' = "Exception"
    /\ pc' = "fatal"
    /\ UNCHANGED <<llm, actions, store, clock, query_vars, voice_vars>>

\* voice_interface.py line 127: a fault in the try block reaches the loop's
\* except Exception clause
LoopFault(at) ==
    /\ pc = at
    /\ RaisesToLoop(at)
    /\ raised' = "Exception"
    /\ pc' = "caught"
    /\ UNCHANGED <<llm, actions, store, clock, query_vars, voice_vars>>

\* voice_interface.py line 128, then the next iteration of while True
LoopCatch ==
    /\ pc = "caught"
    /\ pc' = "listen"
    /\ UNCHANGED <<llm, actions, store, clock, raised, query_vars, voice_vars>>

\* the positions inside the try block of the loop (lines 114-123), the
\* callback and process_query included
InLoopTry ==
    pc \in {"listen", "transcribe", "wake", "capture", "heard", "entered",
            "generate", "parse", "dispatch", "resolve", "store", "return",
            "returned", "raised"}

\* the interrupt signal (KeyboardInterrupt), delivered once, wherever the
\* thread is.  Inside the loop's try block it reaches line 125 (except
\* KeyboardInterrupt: break): listen_for_wake_word and then run return, and
\* the process ends with status 0.  Outside it (the greeting, the loop's
\* except block) it reaches run's except KeyboardInterrupt (line 139).  An
\* interrupt taken by one of the bare except clauses below the loop changes
\* nothing and is a stuttering step.
Interrupt ==
    /\ ~interrupted
    /\ interrupted' = TRUE
    /\ \/ /\ InLoopTry
          /\ pc' = "exited"
          /\ exit_code' = PyNum("0")
       \/ /\ pc \in {"greet", "caught"}
          /\ pc' = "goodbye"
          /\ UNCHANGED exit_code
    /\ UNCHANGED <<llm, actions, store, clock, raised, query_vars, command,
                   spoken, cleaned>>

\* jarvis.py lines 139-141
SpeakGoodbye ==
    /\ pc = "goodbye"
    /\ spoken' = PyStr(Goodbye)
    /\ pc' = "cleanup"
    /\ UNCHANGED <<llm, actions, store, clock, raised, query_vars, command,
                   cleaned, exit_code, interrupted>>

\* jarvis.py line 141, 155-159: speak("Goodbye") raises out of run's except
\* block to main, which exits with status 1
GoodbyeFault ==
    /\ pc = "goodbye"
    /\ raised' = "Exception"
    /\ exit_code' = PyNum("1")
    /\ pc' = "exited"
    /\ UNCHANGED <<llm, actions, store, clock, query_vars, command, spoken,
                   cleaned, interrupted>>

\* jarvis.py lines 142-143, voice_interface.py lines 222-224
Cleanup ==
    /\ pc = "cleanup"
    /\ cleaned' = TRUE
    /\ exit_code' = PyNum("0")
    /\ pc' = "exited"
    /\ UNCHANGED <<llm, actions, store, clock, raised, query_vars, command,
                   spoken, interrupted>>

\* main: the assistant is constructed and run() is about to start
InitVoice ==
    /\ llm \in BOOLEAN
    /\ actions = ActionTable
    /\ store \in InitialStores
    /\ clock = 2 * Len(store)
    /\ pc = "greet"
    /\ user_input = PyNone
    /\ store0 = store
    /\ FreshLocals
    /\ allowed_commands = <<>>
    /\ spawned = {}
    /\ limit = 0
    /\ recent = <<>>
    /\ VoiceIdle

NextVoice ==
    \/ Greet
    \/ GreetFault
    \/ FatalExit
    \/ RecordAudio
    \/ Transcribe
    \/ SpeakListening
    \/ ListenForCommand
    \/ SpeakNothing
    \/ ProcessCommand
    \/ ReturnUnavailable
    \/ GetContext
    \/ Generate
    \/ GenerateFault
    \/ Parse
    \/ NoDispatch
    \/ Dispatch
    \/ Resolve
    \/ AddConversation
    \/ Return
    \/ SpeakResponse
    \/ SpeakResponseFault
    \/ HandleError
    \/ \E at \in {"listen", "transcribe", "wake", "capture", "heard", "raised"} :
         LoopFault(at)
    \/ LoopCatch
    \/ Interrupt
    \/ SpeakGoodbye
    \/ GoodbyeFault
    \/ Cleanup

SpecVoice == InitVoice /\ [][NextVoice]_vars

(***************************************************************************)
(* Properties                                                              *)
(***************************************************************************)
Ended == pc \in {"returned", "raised"}

\* C1: process_query never raises, and the response of the QueryResult it
\* returns is never empty, whatever the model backend and the parsed
\* action do.
C1_NeverRaisesNonEmpty ==
    /\ pc # "raised"
    /\ pc = "returned" =>
         /\ result.response.k # "none"
         /\ result.response.v # <<>>

\* C2: the text {"action":"get_time","parameters":{},"response":"ok"}
\* parses to action "get_time", a parameters entry and response "ok".
C2_NestedFragmentParsed ==
    (/\ pc = "parsed"
     /\ response_text =
          <<LBrace, S("action"), Colon, S("get_time"), Comma, S("parameters"),
            Colon, LBrace, RBrace, Comma, S("response"), Colon, S("ok"),
            RBrace>>)
    => /\ Get(parsed, "action") = PyStr(<<W("get_time")>>)
       /\ "parameters" \in DOMAIN parsed
       /\ Get(parsed, "response") = PyStr(<<W("ok")>>)

\* C3: without a model backend process_query returns the fixed text with
\* action none and action_result none, the stored turns are those at the
\* call, no context was read and nothing was dispatched.
C3_UnavailableShortCircuit ==
    (pc = "returned" /\ ~llm) =>
        /\ result = [k |-> "dict",
                     response |-> PyStr(<<W("LLM"), Sp, W("is"), Sp, W("not"),
                                          Sp, W("available")>>),
                     action |-> PyNone, action_result |-> PyNone]
        /\ store = store0
        /\ context = <<>> /\ limit = 0 /\ recent = <<>>
        /\ action_name = PyNone /\ action_result = PyNone /\ spawned = {}

C3_Witness ==
    /\ pc = "returned" /\ ~llm
    /\ store # <<>>
    /\ user_input = PyStr(<<W("what"), Sp, W("time")>>)

\* C4: the stored turns change only at the memory-write step, which
\* appends one turn holding the query's input and the final response; and a
\* query that returns with the model available leaves exactly one turn more
\* than it found, whose assistant_response is the response it returns.
C4_OneTurnPerQuery ==
    [][ /\ store' # store =>
              /\ pc = "store"
              /\ Len(store') = Len(store) + 1
              /\ SubSeq(store', 1, Len(store)) = store
              /\ store'[Len(store')].user_input = user_input
              /\ store'[Len(store')].assistant_response = final_response
        /\ (pc' = "returned" /\ llm) =>
              /\ Len(store') = Len(store0') + 1
              /\ SubSeq(store', 1, Len(store0')) = store0'
              /\ store'[Len(store')].user_input = user_input'
              /\ store'[Len(store')].assistant_response = result'.response
      ]_vars

C4_Witness ==
    /\ pc = "returned" /\ llm
    /\ Len(store0) = 1 /\ Len(store) = 2
    /\ store[1].user_input = store[2].user_input
    /\ action_result # PyNone

\* C5: get_recent_conversations(limit) returns the Min(limit, stored)
\* most recently added turns.
C5_RecentAreNewest ==
    pc = "read" =>
        /\ Len(recent) = Min(limit, Len(store))
        /\ {recent[i].timestamp : i \in 1..Len(recent)} =
             {store[j].timestamp :
                j \in (Len(store) - Len(recent) + 1)..Len(store)}

AllowedNames == {<<W("ls")>>, <<W("pwd")>>, <<W("date")>>, <<W("whoami")>>}

\* execute_action was called on run_command with a command that has a name
RunCommandNamed ==
    /\ Ended
    /\ action_name = PyStr(<<W("run_command")>>)
    /\ "command" \in DOMAIN kwargs
    /\ kwargs["command"].k = "str"
    /\ Split(kwargs["command"].v) # <<>>

\* C6: run_command returns success false and makes no subprocess call for
\* every command whose name is outside {ls, pwd, date, whoami}; every
\* subprocess call it makes is for a name in that set; and the allow-list
\* it uses is that set on every call.
C6_DisallowedRejected ==
    /\ allowed_commands # <<>> => Range(allowed_commands) = AllowedNames
    /\ (RunCommandNamed /\ Split(kwargs["command"].v)[1] \notin AllowedNames)
          => /\ raised = "none"
             /\ action_result.success = FALSE
             /\ spawned = {}
    /\ \A l \in spawned : l.by = "run_command" => l.argv[1] \in AllowedNames

C6_Witness ==
    /\ RunCommandNamed
    /\ kwargs["command"] = PyStr(<<W("rm"), Sp, P("-"), W("rf"), Sp, P("/")>>)
    /\ action_result.success = FALSE
    /\ allowed_commands # <<>>

\* C7: execute_action never lets an exception reach its caller: it always
\* returns an ActionResult with a message.
C7_ExecuteNeverRaises ==
    /\ pc # "raised"
    /\ pc = "returned" => action_result.k = "dict" /\ action_result.message # <<>>

TableNames ==
    {"open_cursor", "open_browser", "open_terminal", "get_time", "get_date",
     "list_files", "run_command"}

\* C8: a name that is not in the table yields success false with the
\* message "Unknown action: <name>", no exception and no subprocess call;
\* and the table keeps its seven entries.
C8_UnknownRejected ==
    /\ DOMAIN actions = TableNames
    /\ (Ended /\ action_name.v \notin {<<W(n)>> : n \in TableNames})
          => /\ raised = "none"
             /\ action_result =
                  [k |-> "dict", success |-> FALSE,
                   message |-> <<W("Unknown"), Sp, W("action"), Colon, Sp>>
                               \o action_name.v]
             /\ spawned = {}

C8_Witness ==
    /\ Ended
    /\ action_name = PyStr(<<W("bogus")>>)
    /\ kwargs # EmptyDict
    /\ action_result.success = FALSE

\* C9: the response returned is the parsed response when that is present
\* (non-empty), also when an action ran and failed; else the message of the
\* action result when an action ran and gave one; else the text that was
\* parsed.
C9_ResponsePrecedence ==
    (pc = "returned" /\ llm) =>
        LET resp == Get(parsed, "response") IN
        /\ Truthy(resp) => result.response = resp
        /\ (~Truthy(resp) /\ action_result # PyNone
              /\ action_result.message # <<>>)
             => result.response = PyStr(action_result.message)
        /\ (~Truthy(resp)
              /\ (action_result = PyNone \/ action_result.message = <<>>))
             => result.response = PyStr(response_text)

C9_Witness ==
    /\ pc = "returned" /\ llm
    /\ Truthy(Get(parsed, "response"))
    /\ action_result # PyNone
    /\ ~action_result.success
    /\ result.response = PyStr(<<W("ok")>>)

\* a text with at most one "{", no brace-delimited fragment that decodes as
\* a mapping with an "action" key, and no "action: <identifier>" pattern
NoIntentShape(t) ==
    /\ Cardinality({i \in 1..Len(t) : t[i] = LBrace}) <= 1
    /\ ~\E i, j \in 1..Len(t) :
          /\ i < j /\ t[i] = LBrace /\ t[j] = RBrace
          /\ LET c == NoSpace(SubSeq(t, i + 1, j - 1))
             IN /\ JsonMembersOk(c)
                /\ \E n \in 1..Len(c) : n % 4 = 1 /\ c[n] = S("action")
    /\ ~\E i \in 1..Len(t) :
          /\ t[i].k = "w" /\ t[i].v \in ActionWords
          /\ i + 1 <= Len(t) /\ t[i + 1] = Colon
          /\ \E j \in (i + 2)..Len(t) :
                /\ t[j].k = "w"
                /\ \A n \in (i + 2)..(j - 1) : IsSpace(t[n])

\* C10: a text with no recognizable intent shape parses to action none
\* with the whole text as the response.
C10_FallbackWholeText ==
    (pc = "parsed" /\ NoIntentShape(response_text)) =>
        parsed = [key \in {"action", "response"} |->
                    IF key = "action" THEN PyNone ELSE PyStr(response_text)]

\* the tokens i..j of t are one brace-delimited fragment that decodes as a
\* mapping (no brace inside it)
DecodableFragment(t, i, j) ==
    /\ i < j /\ t[i] = LBrace /\ t[j] = RBrace
    /\ JsonMembersOk(NoSpace(SubSeq(t, i + 1, j - 1)))

\* ... and the mapping has an "action" key
IntentFragment(t, i, j) ==
    /\ DecodableFragment(t, i, j)
    /\ LET c == NoSpace(SubSeq(t, i + 1, j - 1))
       IN \E n \in 1..Len(c) : n % 4 = 1 /\ c[n] = S("action")

\* "action: <identifier>" in any letter case starts at i with the
\* identifier at j
KeywordAt(t, i, j) ==
    /\ t[i].k = "w" /\ t[i].v \in {"action", "Action", "ACTION", "reaction"}
    /\ i + 1 < j /\ j <= Len(t)
    /\ t[i + 1] = Colon
    /\ t[j].k = "w"
    /\ \A n \in (i + 2)..(j - 1) : IsSpace(t[n])

HasKeyword(t) == \E i, j \in 1..Len(t) : KeywordAt(t, i, j)

\* C11: when the text holds a decodable brace fragment with an "action"
\* key and also the keyword pattern, parse returns the mapping of such a
\* fragment (its action, parameters and response as they stand); the
\* keyword pattern decides only when no such fragment exists.
C11_FragmentBeforeKeyword ==
    LET t == response_text IN
    (/\ pc = "parsed"
     /\ HasKeyword(t)
     /\ \E i, j \in 1..Len(t) : IntentFragment(t, i, j))
    => \E i, j \in 1..Len(t) :
          /\ IntentFragment(t, i, j)
          /\ parsed = JsonLoads(SubSeq(t, i, j))

\* C12: a text with no decodable brace fragment that holds
\* "action: <identifier>" in any letter case parses to the identifier of
\* the leftmost such pattern as the action and the whole text as the
\* response.
C12_KeywordPattern ==
    LET t == response_text IN
    (/\ pc = "parsed"
     /\ HasKeyword(t)
     /\ ~\E i, j \in 1..Len(t) : DecodableFragment(t, i, j))
    => \E i, j \in 1..Len(t) :
          /\ KeywordAt(t, i, j)
          /\ \A m, n \in 1..Len(t) : KeywordAt(t, m, n) => i <= m
          /\ parsed = [key \in {"action", "response"} |->
                         IF key = "action" THEN PyStr(<<t[j]>>) ELSE PyStr(t)]

C12_Witness ==
    /\ pc = "parsed"
    /\ response_text =
         <<LBrace, W("x"), RBrace, Sp, W("ACTION"), Colon, Sp, W("get_date")>>
    /\ parsed["action"] = PyStr(<<W("get_date")>>)
    /\ parsed["response"] = PyStr(response_text)

\* the order of the stages of one call: each step of a call moves it along
\* one of these edges
StageEdges ==
    { <<"entered", "generate">>, <<"generate", "parse">>,
      <<"parse", "dispatch">>, <<"dispatch", "resolve">>,
      <<"resolve", "store">>, <<"store", "return">>, <<"return", "returned">>,
      <<"generate", "raised">>, <<"dispatch", "raised">>,
      <<"entered", "returned">> }

\* C13: in a call with the model available the stages run in the order
\* context, model, parse, dispatch, append, return, none of them twice: the
\* context is built only on entry, the model's text is taken only at the
\* model stage (a fault there ends the call, no retry), the parse result
\* only at the parse stage, an action is dispatched only at the dispatch
\* stage and only if the parsed intent names one, and the stored turns
\* change only at the append stage, after the dispatch stage has ended.
C13_StageOrder ==
    [][ LET Call == pc' = "entered"
            Step(a, b) == pc = a /\ pc' = b
        IN /\ Call \/ <<pc, pc'>> \in StageEdges
           /\ Step("entered", "returned") => ~llm
           /\ context' # context => Call \/ Step("entered", "generate")
           /\ response_text' # response_text =>
                 Call \/ Step("generate", "parse")
           /\ parsed' # parsed => Call \/ Step("parse", "dispatch")
           /\ (\/ action_result' # action_result
               \/ action_name' # action_name
               \/ spawned' # spawned) =>
                 \/ Call
                 \/ /\ pc = "dispatch" /\ pc' \in {"resolve", "raised"}
                    /\ Truthy(Get(parsed, "action"))
           /\ store' # store => Step("store", "return")
           /\ result' # result => Call \/ pc' = "returned"
      ]_vars

C13_Witness ==
    /\ pc = "returned" /\ llm
    /\ spawned # {}
    /\ context # <<>>
    /\ Len(store) = Len(store0) + 1
    /\ result.action = PyStr(<<W("open_cursor")>>)

\* the positions of listen_for_wake_word's loop
InLoop == InLoopTry \/ pc = "caught"

\* the latest command has been handled in full: the orchestrator processed
\* it, the turn is stored (with a model backend) and the response is spoken
Handled ==
    /\ user_input = command
    /\ result # NotCalled
    /\ spoken = result.response
    /\ llm => /\ Len(store) = Len(store0) + 1
              /\ store[Len(store)].user_input = command
              /\ store[Len(store)].assistant_response = spoken

\* C14: in the wake-word loop a capture cycle begins only when the latest
\* command, if one was heard and no fault was raised since, has been
\* processed by the orchestrator and its response spoken; a fault raised in
\* the loop is caught and the loop goes on (from the loop's except block
\* to the next capture, from the handler's except block to the next
\* capture or to the loop's except block); only the interrupt signal ends
\* the loop.
C14_LoopGoesOn ==
    [][ /\ (InLoop /\ pc' \in {"exited", "goodbye", "cleanup", "fatal"}) =>
             ~interrupted /\ interrupted'
        /\ (pc = "caught" /\ ~interrupted') => pc' = "listen"
        /\ (pc = "raised" /\ ~interrupted') => pc' \in {"listen", "caught"}
        /\ (InLoop /\ raised' # raised /\ raised' # "none") =>
             pc' \in {"caught", "raised"}
        /\ (pc = "listen" /\ pc' = "transcribe"
             /\ Truthy(command) /\ raised = "none") => Handled
      ]_vars

C14_Witness ==
    /\ pc = "transcribe"
    /\ command = PyStr(<<W("what"), Sp, W("time")>>)
    /\ raised = "none"
    /\ llm
    /\ Handled

\* C15: with no model backend, the handling of a heard command that ends
\* without a fault ends by speaking what _handle_simple_command speaks for
\* that command (for a command containing "what time", get_time's message).
C15_SimpleFallback ==
    [][ (/\ ~llm /\ Truthy(command) /\ raised = "none"
         /\ pc \in {"heard", "entered", "returned"}
         /\ pc' = "listen") =>
            spoken' \in handle_simple_command(command)
      ]_vars

\* C16: when the interrupt signal has ended the run loop and the process has
\* stopped, "Goodbye" has been spoken and cleanup() has been called.
C16_InterruptShutsDown ==
    (pc = "exited" /\ interrupted) => (spoken = PyStr(Goodbye) /\ cleaned)

====
